---- MODULE Spec2Model ----
(***************************************************************************)
(* Model of catmass/src/functions.py: the four public calculations         *)
(* XASMassCalc, XASStoichCalc, metalCalculateSample and                    *)
(* ComplexCalculateSample.  The library is stateless; the state of the     *)
(* model is the last call made (its arguments) and everything that call    *)
(* computed up to the point where it returned or raised.                   *)
(*                                                                         *)
(* Real numbers are exact rationals <<n, d>> with d > 0 in lowest terms.   *)
(* The tabulated atomic data of xraylib is replaced by a small table with  *)
(* integer atomic weights.                                                 *)
(***************************************************************************)
EXTENDS Integers, Sequences, FiniteSets, TLC

\* ------------------------------------------------------------------ bounds
MaxRatio == 2
MaxLoadingStep == 5
MaxArea == 2
MaxDeltaStep == 2

\* --------------------------------------------------------------- rationals
Abs(x) == IF x < 0 THEN -x ELSE x

RECURSIVE GCD(_, _)
GCD(a, b) == IF b = 0 THEN a ELSE GCD(b, a % b)

Rat(n, d) ==
    LET g == GCD(Abs(n), Abs(d))
        s == IF d < 0 THEN -1 ELSE 1
    IN  <<(s * n) \div g, (s * d) \div g>>

RInt(k) == <<k, 1>>
RZero == <<0, 1>>
ROne == <<1, 1>>
RAdd(a, b) == Rat(a[1] * b[2] + b[1] * a[2], a[2] * b[2])
RSub(a, b) == Rat(a[1] * b[2] - b[1] * a[2], a[2] * b[2])
RMul(a, b) ==
    LET x == Rat(a[1], b[2])
        y == Rat(b[1], a[2])
    IN  <<x[1] * y[1], x[2] * y[2]>>
RDiv(a, b) == RMul(a, Rat(b[2], b[1]))
RLess(a, b) == a[1] * b[2] < b[1] * a[2]
RLeq(a, b) == a[1] * b[2] <= b[1] * a[2]
RIsZero(a) == a[1] = 0
RIsNeg(a) == a[1] < 0
RIsPos(a) == a[1] > 0

RECURSIVE RSumSeq(_)
RSumSeq(s) == IF s = <<>> THEN RZero ELSE RAdd(Head(s), RSumSeq(Tail(s)))

RECURSIVE RMinSeq(_)
RMinSeq(s) ==
    IF Len(s) = 1 THEN s[1]
    ELSE LET m == RMinSeq(Tail(s))
         IN  IF RLeq(s[1], m) THEN s[1] ELSE m

RECURSIVE RMaxSeq(_)
RMaxSeq(s) ==
    IF Len(s) = 1 THEN s[1]
    ELSE LET m == RMaxSeq(Tail(s))
         IN  IF RLeq(m, s[1]) THEN s[1] ELSE m

\* ------------------------------------------- atomic data service (xraylib)
\* A four-element table stands in for xraylib's tabulated data.
Symbols == {"O", "Mg", "Ti", "Cu"}

SymbolToAtomicNumber(sym) ==
    CASE sym = "O" -> 8
      [] sym = "Mg" -> 12
      [] sym = "Ti" -> 22
      [] sym = "Cu" -> 29
      [] OTHER -> 0

AtomicNumberToSymbol(Z) ==
    CASE Z = 8 -> "O"
      [] Z = 12 -> "Mg"
      [] Z = 22 -> "Ti"
      [] Z = 29 -> "Cu"
      [] OTHER -> ""

\* g/mol, rounded to integers
AtomicWeight(Z) ==
    CASE Z = 8 -> 16
      [] Z = 12 -> 24
      [] Z = 22 -> 48
      [] Z = 29 -> 64
      [] OTHER -> 0

\* keV; shell 0 = K, 1 = L1, 2 = L2, 3 = L3
EdgeEnergy(Z, shell) == Rat(Z, 4 * (shell + 1))

\* cm^2/g at energy E (keV, E > 0): jumps at each edge of the element
CS_Photo(Z, E) ==
    RInt(Z * (1 + Cardinality({sh \in 0..3 : RLeq(EdgeEnergy(Z, sh), E)})))

\* A formula string is a sequence of tokens <<symbol, count>>.
RECURSIVE SortedSeq(_)
SortedSeq(S) ==
    IF S = {} THEN <<>>
    ELSE LET m == CHOOSE x \in S : \A y \in S : x <= y
         IN  <<m>> \o SortedSeq(S \ {m})

RECURSIVE CountOf(_, _)
CountOf(tokens, Z) ==
    IF tokens = <<>> THEN 0
    ELSE (IF SymbolToAtomicNumber(Head(tokens)[1]) = Z THEN Head(tokens)[2] ELSE 0)
         + CountOf(Tail(tokens), Z)

\* xraylib.CompoundParser: elements in ascending atomic number, repeated
\* symbols merged, mass fraction = nAtoms * weight / formula weight
CompoundParser(tokens) ==
    LET els == SortedSeq({SymbolToAtomicNumber(tokens[i][1]) : i \in 1..Len(tokens)})
        n == Len(els)
        atoms == [i \in 1..n |-> CountOf(tokens, els[i])]
        total == RSumSeq([i \in 1..n |-> RInt(atoms[i] * AtomicWeight(els[i]))])
    IN  [nElements |-> n,
         Elements |-> els,
         nAtoms |-> atoms,
         massFractions |->
             [i \in 1..n |-> RDiv(RInt(atoms[i] * AtomicWeight(els[i])), total)]]

\* ------------------------------------------------------------ call results
\* What one call computed.  err = "none" and returned = TRUE: the call
\* returned; otherwise err names the Python exception that ended it and the
\* other fields hold what had been computed by then.  table is Updated_MF;
\* built says that the loops filling it ran to their end (the program point
\* after line 184, 293 or 383).
NoResult ==
    [err |-> "none", returned |-> FALSE,
     E0 |-> RZero, mass |-> RZero, step |-> RZero,
     queries |-> <<>>, Photo_XS |-> <<>>,
     table |-> <<>>, built |-> FALSE, wt_Factor |-> RZero,
     mol |-> <<>>, string |-> <<>>, formula |-> <<>>]

\* ------------------------------------------------------------- XASMassCalc
EdgeLabels == {"K", "L1", "L2", "L3"}

\* lines 77-84: the edge energy of the absorbing element; E0 keeps its
\* placeholder 0 when no branch matches
IdentifyEdgeEnergy(edge_Element, Edge) ==
    CASE Edge = "K" -> EdgeEnergy(SymbolToAtomicNumber(edge_Element), 0)
      [] Edge = "L1" -> EdgeEnergy(SymbolToAtomicNumber(edge_Element), 1)
      [] Edge = "L2" -> EdgeEnergy(SymbolToAtomicNumber(edge_Element), 2)
      [] Edge = "L3" -> EdgeEnergy(SymbolToAtomicNumber(edge_Element), 3)
      [] OTHER -> RZero

\* lines 92, 94, 119: the two energies (keV) at which cross sections are
\* read; delta is the argument already divided by 1000 (line 65)
QueryEnergies(E0, delta) == <<RSub(E0, Rat(5, 100)), RAdd(E0, Rat(5, 100))>>

\* mutant of MultiElementMassStep: adds the contributions up
MultiElementMassStep_Sum(mf, XS, Area, AL) ==
    LET n == Len(mf)
        mu_ave == <<RSumSeq([i \in 1..n |-> RMul(XS[i][1], mf[i])]),
                    RSumSeq([i \in 1..n |-> RMul(XS[i][2], mf[i])])>>
        mass == RDiv(RMul(AL, RInt(Area)), mu_ave[2])
        step == [i \in 1..n |->
                    RMul(RDiv(RMul(mf[i], mass), RInt(Area)),
                         RSub(XS[i][2], XS[i][1]))]
    IN  [mass |-> mass, step |-> RSumSeq(step)]

\* lines 98-113: mass and step of a sample of several elements
MultiElementMassStep(mf, XS, Area, AL) ==
    LET n == Len(mf)
        mu_ave == <<RSumSeq([i \in 1..n |-> RMul(XS[i][1], mf[i])]),
                    RSumSeq([i \in 1..n |-> RMul(XS[i][2], mf[i])])>>
        mass == RDiv(RMul(AL, RInt(Area)), mu_ave[2])
        step == [i \in 1..n |->
                    RMul(RDiv(RMul(mf[i], mass), RInt(Area)),
                         RSub(XS[i][2], XS[i][1]))]
    IN  [mass |-> mass, step |-> RMaxSeq(step)]

\* lines 119-124: mass and step of a sample of one element
SingleElementMassStep(XS, Area, AL) ==
    LET mass == RDiv(RMul(AL, RInt(Area)), XS[1][2])
    IN  [mass |-> mass,
         step |-> RMul(RDiv(mass, RInt(Area)), RSub(XS[1][2], XS[1][1]))]

\* strict: the installed xraylib raises ValueError on a non-positive energy
\* (4.x); otherwise it reports a cross section of 0 (3.x).
XASMassCalc(Sample, Element, Edge, Area, AL, delta_eV, strict) ==
    LET delta == RDiv(RInt(delta_eV), RInt(1000))
        Elements == CompoundParser(Sample)
        edge_Element == AtomicNumberToSymbol(CompoundParser(Element).Elements[1])
        E0 == IdentifyEdgeEnergy(edge_Element, Edge)
        at == QueryEnergies(E0, delta)
        n == Elements.nElements
        queries == [i \in 1..n |-> <<Elements.Elements[i], at[1], at[2]>>]
        XSat(Z, E) == IF RIsPos(E) THEN CS_Photo(Z, E) ELSE RZero
        XS == [i \in 1..n |-> <<XSat(Elements.Elements[i], at[1]),
                                XSat(Elements.Elements[i], at[2])>>]
        ms == IF n > 1
              THEN MultiElementMassStep(Elements.massFractions, XS, Area, AL)
              ELSE SingleElementMassStep(XS, Area, AL)
    IN  IF strict /\ (~RIsPos(at[1]) \/ ~RIsPos(at[2]))
        THEN [NoResult EXCEPT !.err = "ValueError",
                              !.queries = <<queries[1]>>]
        ELSE [NoResult EXCEPT !.returned = TRUE,
                              !.E0 = RMul(E0, RInt(1000)),
                              !.mass = RMul(ms.mass, RInt(1000)),
                              !.step = ms.step,
                              !.queries = queries,
                              !.Photo_XS = XS]

\* --------------------------------------------------------- formula algebra
\* rows <<atomic number, mass fraction * w>> of one parsed component
\* (lines 174-179, 182-184, 262-272, 276-293, 371-376, 381-383)
WeightedRows(comp, w) ==
    [i \in 1..comp.nElements |->
        <<comp.Elements[i], RMul(comp.massFractions[i], w)>>]

\* a numpy float: a number, or inf, or nan
Num(v) == [kind |-> "num", val |-> v]
Inf == [kind |-> "inf", val |-> RZero]
NaN == [kind |-> "nan", val |-> RZero]

\* mutant of MolNormalize: divides by the largest entry
MolNormalize_ByMax(mols) ==
    LET m == RMaxSeq(mols)
    IN  [i \in 1..Len(mols) |->
            IF RIsZero(m)
            THEN (IF RIsZero(mols[i]) THEN NaN ELSE Inf)
            ELSE Num(RDiv(mols[i], m))]

\* lines 195, 305, 395: mol = mol / min(mol); numpy divides by zero with a
\* warning, giving inf for x/0 (x > 0) and nan for 0/0
MolNormalize(mols) ==
    LET m == RMinSeq(mols)
    IN  [i \in 1..Len(mols) |->
            IF RIsZero(m)
            THEN (IF RIsZero(mols[i]) THEN NaN ELSE Inf)
            ELSE Num(RDiv(mols[i], m))]

\* lines 187-195: moles of each row, then normalization
MolTable(rows) ==
    MolNormalize([i \in 1..Len(rows) |->
                     RDiv(rows[i][2], RInt(AtomicWeight(rows[i][1])))])

RECURSIVE DecDigits(_, _, _, _)
DecDigits(acc, r, d, k) ==
    IF k = 0 THEN <<acc, r>>
    ELSE DecDigits(acc * 10 + (r * 10) \div d, (r * 10) % d, d, k - 1)

\* '{:0.6f}'.format(x): sign, and |x| in millionths rounded half to even
Format6(x) ==
    IF x.kind # "num" THEN [kind |-> x.kind, neg |-> FALSE, micro |-> 0]
    ELSE LET n == Abs(x.val[1])
             d == x.val[2]
             q == DecDigits(n \div d, n % d, d, 6)
             up == IF 2 * q[2] > d THEN 1
                   ELSE IF 2 * q[2] = d THEN q[1] % 2 ELSE 0
         IN  [kind |-> "num", neg |-> x.val[1] < 0, micro |-> q[1] + up]

\* lines 198-203: '<symbol><value>' for every row, in row order
BuildString(rows, mol) ==
    [i \in 1..Len(rows) |-> <<AtomicNumberToSymbol(rows[i][1]), Format6(mol[i])>>]

\* xraylib.CompoundParser rejects a subscript that is not an unsigned number
Parsable(str) ==
    \A i \in 1..Len(str) : str[i][2].kind = "num" /\ ~str[i][2].neg

\* lines 205, 316, 406: the re-parse of the intermediate string; only
\* Elements and nAtoms (in millionths) are read afterwards
Reparse(str) ==
    LET tokens == [i \in 1..Len(str) |-> <<str[i][1], str[i][2].micro>>]
        els == SortedSeq({SymbolToAtomicNumber(tokens[i][1]) : i \in 1..Len(tokens)})
    IN  [nElements |-> Len(els),
         Elements |-> els,
         nAtoms |-> [i \in 1..Len(els) |-> CountOf(tokens, els[i])]]

\* lines 209-214: the condensed string
CondensedString(parsed) ==
    [i \in 1..parsed.nElements |->
        <<AtomicNumberToSymbol(parsed.Elements[i]),
          Format6(Num(Rat(parsed.nAtoms[i], 1000000)))>>]

\* lines 186-216 (and their copies 296-327, 386-417).  A table of one row
\* was never passed through np.vstack: it is the Python list [Z, mf], and
\* Updated_MF[x,1] raises TypeError.
FinishFormula(r, rows) ==
    IF Len(rows) = 1 THEN [r EXCEPT !.err = "TypeError"]
    ELSE LET mol == MolTable(rows)
             str == BuildString(rows, mol)
         IN  IF ~Parsable(str)
             THEN [r EXCEPT !.err = "ValueError", !.mol = mol, !.string = str]
             ELSE [r EXCEPT !.returned = TRUE, !.mol = mol, !.string = str,
                            !.formula = CondensedString(Reparse(str))]

\* ----------------------------------------------------------- XASStoichCalc
\* lines 176, 178, 183: share of the mixture of a sample of ratio DR
DilutionShare(DR, Sample1_DR, Sample2_DR) == Rat(DR, Sample1_DR + Sample2_DR)

XASStoichCalc(Sample1, Sample2, Sample1_DR, Sample2_DR) ==
    IF Sample1_DR + Sample2_DR = 0
    THEN [NoResult EXCEPT !.err = "ZeroDivisionError"]
    ELSE LET Sample1_Elements == CompoundParser(Sample1)
             Sample2_Elements == CompoundParser(Sample2)
             rows1 == WeightedRows(Sample1_Elements,
                                   DilutionShare(Sample1_DR, Sample1_DR, Sample2_DR))
             rows2 == IF Sample2_DR > 0
                      THEN WeightedRows(Sample2_Elements,
                                        DilutionShare(Sample2_DR, Sample1_DR, Sample2_DR))
                      ELSE <<>>
             Updated_MF == rows1 \o rows2
         IN  FinishFormula([NoResult EXCEPT !.table = Updated_MF, !.built = TRUE],
                           Updated_MF)

\* ---------------------------------------------------- metalCalculateSample
\* mutant of SupportShare: subtracts both loadings in either mode
SupportShare_BothLoadings(Metal_Site2, Metal1_Loading, Metal2_Loading) ==
    RSub(ROne, Rat(Metal1_Loading + Metal2_Loading, 100))

\* lines 271 and 292: the support's share of the sample
SupportShare(Metal_Site2, Metal1_Loading, Metal2_Loading) ==
    IF Metal_Site2 = <<>>
    THEN RSub(ROne, Rat(Metal1_Loading, 100))
    ELSE RSub(ROne, Rat(Metal1_Loading + Metal2_Loading, 100))

\* lines 264, 266, 278, 280, 287: a metal site's share of the sample
MetalShare(Loading) == Rat(Loading, 100)

metalCalculateSample(Metal_Site1, Metal1_Loading, Metal_Site2, Metal2_Loading, Support) ==
    LET MetalSite1_Elements == CompoundParser(Metal_Site1)
        Support_Elements == CompoundParser(Support)
        rows1 == WeightedRows(MetalSite1_Elements, MetalShare(Metal1_Loading))
        rows2 == IF Metal_Site2 = <<>> THEN <<>>
                 ELSE WeightedRows(CompoundParser(Metal_Site2), MetalShare(Metal2_Loading))
        rowsS == WeightedRows(Support_Elements,
                              SupportShare(Metal_Site2, Metal1_Loading, Metal2_Loading))
        Updated_MF == rows1 \o rows2 \o rowsS
    IN  FinishFormula([NoResult EXCEPT !.table = Updated_MF, !.built = TRUE],
                      Updated_MF)

\* -------------------------------------------------- ComplexCalculateSample
\* mutant of IndexOf: falls back to the first element when Z is absent
IndexOf_DefaultFirst(els, Z) ==
    IF \E i \in 1..Len(els) : els[i] = Z
    THEN CHOOSE i \in 1..Len(els) : els[i] = Z /\ \A j \in 1..(i - 1) : els[j] # Z
    ELSE 1

\* list.index (line 367): the 1-based position of Z in els, 0 when absent
IndexOf(els, Z) ==
    IF \E i \in 1..Len(els) : els[i] = Z
    THEN CHOOSE i \in 1..Len(els) : els[i] = Z /\ \A j \in 1..(i - 1) : els[j] # Z
    ELSE 0

\* line 368
WtFactor(Metal_Loading, massFraction) == RDiv(RInt(Metal_Loading), massFraction)

\* lines 373, 375: the complex's rows carry massFraction * wt_Factor / 100
ComplexShare(wt_Factor) == RDiv(wt_Factor, RInt(100))

\* mutant of ComplexSupportShare: subtracts the first row only
ComplexSupportShare_FirstRow(complexRows) == RSub(ROne, complexRows[1][2])

\* line 378 and line 382
ComplexSupportShare(complexRows) ==
    RSub(ROne, RSumSeq([i \in 1..Len(complexRows) |-> complexRows[i][2]]))

ComplexCalculateSample(Complex, Metal_Loading, Metal_Site, Support) ==
    LET MetalSite_Elements == CompoundParser(Complex)
        Support_Elements == CompoundParser(Support)
        ind == IndexOf(MetalSite_Elements.Elements, SymbolToAtomicNumber(Metal_Site))
    IN  IF ind = 0 THEN [NoResult EXCEPT !.err = "ValueError"]
        ELSE LET wt_Factor == WtFactor(Metal_Loading, MetalSite_Elements.massFractions[ind])
                 rowsC == WeightedRows(MetalSite_Elements, ComplexShare(wt_Factor))
             IN  IF Len(rowsC) = 1
                 THEN \* Updated_MF is still the list [Z, mf]: Updated_MF[:,1]
                      [NoResult EXCEPT !.err = "TypeError", !.table = rowsC,
                                       !.wt_Factor = wt_Factor]
                 ELSE LET Updated_MF ==
                              rowsC \o WeightedRows(Support_Elements,
                                                    ComplexSupportShare(rowsC))
                      IN  FinishFormula([NoResult EXCEPT !.table = Updated_MF,
                                                         !.built = TRUE,
                                                         !.wt_Factor = wt_Factor],
                                        Updated_MF)

\* ------------------------------------------------------------------ inputs
Cu == <<<<"Cu", 1>>>>
Mg == <<<<"Mg", 1>>>>
MgO == <<<<"Mg", 1>>, <<"O", 1>>>>
TiO2 == <<<<"Ti", 1>>, <<"O", 2>>>>
CuO == <<<<"Cu", 1>>, <<"O", 1>>>>
Formulas == {Cu, Mg, MgO, TiO2, CuO}
Areas == 1..MaxArea
ALs == {Rat(5, 2), RInt(1)}
Deltas == {50 * k : k \in 1..MaxDeltaStep}
Ratios == 0..MaxRatio
Loadings == {20 * k : k \in 0..MaxLoadingStep}

\* ------------------------------------------------------------ state machine
VARIABLES pc, call, res
vars == <<pc, call, res>>

NoCall ==
    [op |-> "none", f1 |-> <<>>, f2 |-> <<>>, f3 |-> <<>>, sym |-> "",
     Edge |-> "", a |-> 0, b |-> 0, AL |-> RZero, strict |-> FALSE]

Init == pc = "idle" /\ call = NoCall /\ res = NoResult

CallXASMassCalc ==
    /\ pc = "idle"
    /\ \E Sample \in Formulas, Element \in Symbols, Edge \in EdgeLabels \cup {"M1"},
          Area \in Areas, AL \in ALs, delta \in Deltas, strict \in BOOLEAN :
          /\ call' = [NoCall EXCEPT !.op = "XASMassCalc", !.f1 = Sample,
                                    !.sym = Element, !.Edge = Edge, !.a = Area,
                                    !.b = delta, !.AL = AL, !.strict = strict]
          /\ res' = XASMassCalc(Sample, <<<<Element, 1>>>>, Edge, Area, AL, delta, strict)
    /\ pc' = "done"

CallXASStoichCalc ==
    /\ pc = "idle"
    /\ \E Sample1 \in Formulas, Sample2 \in Formulas,
          Sample1_DR \in Ratios, Sample2_DR \in Ratios :
          /\ call' = [NoCall EXCEPT !.op = "XASStoichCalc", !.f1 = Sample1,
                                    !.f2 = Sample2, !.a = Sample1_DR, !.b = Sample2_DR]
          /\ res' = XASStoichCalc(Sample1, Sample2, Sample1_DR, Sample2_DR)
    /\ pc' = "done"

CallmetalCalculateSample ==
    /\ pc = "idle"
    /\ \E Metal_Site1 \in Formulas, Metal_Site2 \in Formulas \cup {<<>>},
          Support \in Formulas, Metal1_Loading \in Loadings, Metal2_Loading \in Loadings :
          /\ call' = [NoCall EXCEPT !.op = "metalCalculateSample", !.f1 = Metal_Site1,
                                    !.f2 = Metal_Site2, !.f3 = Support,
                                    !.a = Metal1_Loading, !.b = Metal2_Loading]
          /\ res' = metalCalculateSample(Metal_Site1, Metal1_Loading, Metal_Site2,
                                         Metal2_Loading, Support)
    /\ pc' = "done"

CallComplexCalculateSample ==
    /\ pc = "idle"
    /\ \E Complex \in Formulas, Metal_Loading \in Loadings, Metal_Site \in Symbols,
          Support \in Formulas :
          /\ call' = [NoCall EXCEPT !.op = "ComplexCalculateSample", !.f1 = Complex,
                                    !.f3 = Support, !.sym = Metal_Site,
                                    !.a = Metal_Loading]
          /\ res' = ComplexCalculateSample(Complex, Metal_Loading, Metal_Site, Support)
    /\ pc' = "done"

Return ==
    /\ pc = "done"
    /\ pc' = "idle"
    /\ call' = NoCall
    /\ res' = NoResult

Next ==
    \/ CallXASMassCalc
    \/ CallXASStoichCalc
    \/ CallmetalCalculateSample
    \/ CallComplexCalculateSample
    \/ Return

Spec == Init /\ [][Next]_vars

\* ------------------------------------------------------------- properties
Done(op) == pc = "done" /\ call.op = op
Blended ==
    /\ pc = "done"
    /\ call.op \in {"XASStoichCalc", "metalCalculateSample", "ComplexCalculateSample"}
Fractions == [i \in 1..Len(res.table) |-> res.table[i][2]]
\* moles of row i of the weighted table
Moles(i) == RDiv(res.table[i][2], RInt(AtomicWeight(res.table[i][1])))
\* the canonical formula of one formula on its own: its rows with weight
\* fraction 1, normalized, formatted, re-parsed and formatted again (spec 4.1)
CanonicalAlone(S) ==
    LET rows == WeightedRows(CompoundParser(S), ROne)
    IN  CondensedString(Reparse(BuildString(rows, MolTable(rows))))

\* C1: XASMassCalc with an edge label outside {K, L1, L2, L3} fails with an
\* UnsupportedEdge error and returns no result triple.
C1_UnsupportedEdgeRejected ==
    (Done("XASMassCalc") /\ call.Edge \notin EdgeLabels)
        => (res.err = "UnsupportedEdge" /\ ~res.returned)

\* C2: in every blending operation, a weighted table with a zero or negative
\* mass fraction makes mole normalization fail with InvalidComposition: no
\* mole table is divided by its minimum and no formula is returned.
C2_NonPositiveFractionRejected ==
    (Blended /\ res.built /\ \E i \in 1..Len(res.table) : ~RIsPos(res.table[i][2]))
        => (res.err = "InvalidComposition" /\ ~res.returned /\ res.mol = <<>>)

\* C3: XASStoichCalc(S1, S2, r, 0) with r > 0 completes and returns the
\* canonical formula of S1 alone, for every S1, one-element formulas included.
C3_ZeroDiluentIsSampleAlone ==
    (Done("XASStoichCalc") /\ call.a > 0 /\ call.b = 0)
        => (res.returned /\ res.formula = CanonicalAlone(call.f1))

\* C4: XASMassCalc reads every element's cross sections at exactly
\* E0 - delta/1000 and E0 + delta/1000 keV, for every delta.
C4_QueriesFollowDelta ==
    (Done("XASMassCalc") /\ call.Edge \in EdgeLabels /\ res.returned)
        => \A i \in 1..Len(res.queries) :
              LET E0 == RDiv(res.E0, RInt(1000))
                  d == Rat(call.b, 1000)
              IN  /\ res.queries[i][2] = RSub(E0, d)
                  /\ res.queries[i][3] = RAdd(E0, d)

C6_NaturalLoadingGivesComplexAlone ==
    LET P == CompoundParser(call.f1)
        ind == IndexOf(P.Elements, SymbolToAtomicNumber(call.sym))
    IN  (Done("ComplexCalculateSample") /\ ind # 0
            /\ RInt(call.a) = RMul(RInt(100), P.massFractions[ind]))
            => /\ res.wt_Factor = RInt(100)
               /\ res.returned
               /\ res.formula = CanonicalAlone(call.f1)

\* expected rows of metalCalculateSample given the three shares
C7_RowsAre(share1, share2, shareS) ==
    LET P1 == CompoundParser(call.f1)
        P2 == CompoundParser(call.f2)
        PS == CompoundParser(call.f3)
        n1 == P1.nElements
        n2 == IF call.f2 = <<>> THEN 0 ELSE P2.nElements
    IN  /\ Len(res.table) = n1 + n2 + PS.nElements
        /\ \A i \in 1..n1 :
              res.table[i] = <<P1.Elements[i], RMul(P1.massFractions[i], share1)>>
        /\ \A i \in 1..n2 :
              res.table[n1 + i] = <<P2.Elements[i], RMul(P2.massFractions[i], share2)>>
        /\ \A i \in 1..PS.nElements :
              res.table[n1 + n2 + i] =
                  <<PS.Elements[i], RMul(PS.massFractions[i], shareS)>>

\* C7 (as stated): metal site 1's rows are scaled by loading1/100, metal
\* site 2's rows (present only when Metal_Site2 is not empty) by loading2/100
\* and the support's rows by 1 - (loading1 + loading2)/100, in either mode.
C7_SupportShareUsesBothLoadings ==
    Done("metalCalculateSample")
        => C7_RowsAre(Rat(call.a, 100), Rat(call.b, 100),
                      RSub(ROne, Rat(call.a + call.b, 100)))

\* C7 (amended): as above, except that in single-metal mode (Metal_Site2
\* empty) the support's rows are scaled by 1 - loading1/100: loading2 is
\* not read.
C7_SharesByMode ==
    Done("metalCalculateSample")
        => C7_RowsAre(Rat(call.a, 100), Rat(call.b, 100),
                      IF call.f2 = <<>>
                      THEN RSub(ROne, Rat(call.a, 100))
                      ELSE RSub(ROne, Rat(call.a + call.b, 100)))

C7_Witness ==
    /\ Done("metalCalculateSample")
    /\ call.f2 = <<>>
    /\ call.b > 0
    /\ res.returned

\* C8: ComplexCalculateSample fails and returns no formula when the metal
\* site is not an element of the complex; when it is, wt_Factor times the
\* site's mass fraction is the loading, and the site's row of the scaled
\* complex carries loading/100.
C8_MetalSiteScaling ==
    Done("ComplexCalculateSample") =>
        LET P == CompoundParser(call.f1)
            Z == SymbolToAtomicNumber(call.sym)
        IN  IF \A i \in 1..P.nElements : P.Elements[i] # Z
            THEN res.err # "none" /\ ~res.returned /\ res.formula = <<>>
            ELSE \A i \in 1..P.nElements : P.Elements[i] = Z =>
                    /\ RMul(res.wt_Factor, P.massFractions[i]) = RInt(call.a)
                    /\ res.table[i] = <<Z, Rat(call.a, 100)>>

C8_Witness ==
    /\ Done("ComplexCalculateSample")
    /\ res.returned
    /\ res.wt_Factor # RInt(100)
    /\ \E i \in 1..Len(res.table) :
          res.table[i] = <<SymbolToAtomicNumber(call.sym), Rat(call.a, 100)>>

\* C9: the returned mass is AL * Area / mu_above (in mg: times 1000), with
\* mu_above the mass-fraction-weighted sum of the above-edge cross sections,
\* and the step is the largest of the elements' contributions
\* (massFraction * mass / Area) * (above - below); a one-element sample
\* follows the same formula with mass fraction 1.
C9_MassAndLargestStep ==
    (Done("XASMassCalc") /\ res.returned) =>
        LET P == CompoundParser(call.f1)
            n == P.nElements
            XS == res.Photo_XS
            mu_above == RSumSeq([i \in 1..n |-> RMul(P.massFractions[i], XS[i][2])])
            mass == RDiv(RMul(call.AL, RInt(call.a)), mu_above)
            part(i) == RMul(RDiv(RMul(P.massFractions[i], mass), RInt(call.a)),
                            RSub(XS[i][2], XS[i][1]))
        IN  /\ Len(XS) = n
            /\ n = 1 => P.massFractions[1] = ROne
            /\ res.mass = RMul(mass, RInt(1000))
            /\ \E i \in 1..n : res.step = part(i)
            /\ \A i \in 1..n : RLeq(part(i), res.step)

C9_Witness ==
    /\ Done("XASMassCalc")
    /\ res.returned
    /\ call.Edge \in EdgeLabels
    /\ Len(res.Photo_XS) > 1
    /\ RIsPos(res.step)
    /\ \E i, j \in 1..Len(res.Photo_XS) :
          /\ i # j
          /\ RLess(res.Photo_XS[i][1], res.Photo_XS[i][2])
          /\ RLess(res.Photo_XS[j][1], res.Photo_XS[j][2])

====
